---- MODULE Spec2Model ----
(***************************************************************************)
(* Model of openai-schemars (src/lib.rs): Schema::enforce_openai_subset    *)
(* and its four recursive passes over a serde_json::Value.                 *)
(*                                                                         *)
(* A serde_json::Value is a record tagged by its JSON kind:                *)
(*   [k |-> "string" | "bool" | "number" | "null", s |-> text]   scalars   *)
(*   [k |-> "array",  a |-> sequence of values]                            *)
(*   [k |-> "object", o |-> function from a set of keys to values]         *)
(***************************************************************************)
EXTENDS Integers, Sequences, FiniteSets, TLC

\* orig:    the document handed to the pipeline
\* value:   Schema::value, mutated in place by the passes
\* prev:    value as it was before the pass that ran last
\* pc:      the position inside enforce_openai_subset; when the passes run in
\*          a free order, whether the pass that ran last is the Total-Required
\*          Enforcer ("required") or another one ("other")
\* applied: the passes run so far, when they run in a free order
VARIABLES orig, value, prev, pc, applied

vars == <<orig, value, prev, pc, applied>>

-----------------------------------------------------------------------------
(* serde_json::Value constructors and Map primitives                       *)

Str(x) == [k |-> "string", s |-> x]

Bool(x) == [k |-> "bool", s |-> x]

Arr(x) == [k |-> "array", a |-> x]

Obj(x) == [k |-> "object", o |-> x]

EmptyMap == [x \in {} |-> Str("")]

IsObject(v) == v.k = "object"

IsArray(v) == v.k = "array"

IsScalar(v) == v.k \notin {"object", "array"}

\* Map::contains_key
ContainsKey(m, key) == key \in DOMAIN m

\* Map::remove: absence of the key is not an error
MapRemove(m, key) == [x \in DOMAIN m \ {key} |-> m[x]]

\* Map::insert: overwrites the value of a key that is present
MapInsert(m, key, v) == [x \in DOMAIN m \cup {key} |-> IF x = key THEN v ELSE m[x]]

\* Every key the model uses, in the byte order in which serde_json's Map
\* (a BTreeMap) iterates.  The order decides only the order of the names
\* appended to a required array.
KeyOrder ==
    << "additionalProperties", "allOf", "anyOf", "contains", "format",
       "items", "maxContains", "maxItems", "maxLength", "maxProperties",
       "maximum", "minContains", "minItems", "minLength", "minProperties",
       "minimum", "multipleOf", "name", "oneOf", "pattern",
       "patternProperties", "properties", "propertyNames", "required",
       "type", "unevaluatedItems", "unevaluatedProperties", "uniqueItems" >>

\* Map::keys
MapKeys(m) == SelectSeq(KeyOrder, LAMBDA x : x \in DOMAIN m)

\* <[Value]>::contains
SeqContains(s, v) == \E i \in 1..Len(s) : s[i] = v

-----------------------------------------------------------------------------
(* remove_property_format_value_from_json                                  *)

\* the key list with "format" and "uniqueItems" forgotten
StrippedKeysShort ==
    << "minLength", "maxLength", "pattern", "minimum", "maximum",
       "multipleOf", "patternProperties", "unevaluatedProperties",
       "propertyNames", "minProperties", "maxProperties", "unevaluatedItems",
       "contains", "minContains", "maxContains", "minItems", "maxItems" >>

StrippedKeys ==
    << "minLength", "maxLength", "pattern", "format", "minimum", "maximum",
       "multipleOf", "patternProperties", "unevaluatedProperties",
       "propertyNames", "minProperties", "maxProperties", "unevaluatedItems",
       "contains", "minContains", "maxContains", "minItems", "maxItems",
       "uniqueItems" >>

RECURSIVE RemoveEach(_, _, _)
\* for key in [...] { object.remove(key); }
RemoveEach(m, keys, i) ==
    IF i > Len(keys) THEN m
    ELSE RemoveEach(MapRemove(m, keys[i]), keys, i + 1)

RECURSIVE strip_outside_arrays(_)
\* the pass without its Value::Array arm
strip_outside_arrays(v) ==
    IF IsObject(v) THEN
        LET m == RemoveEach(v.o, StrippedKeys, 1)
        IN  Obj([x \in DOMAIN m |-> strip_outside_arrays(m[x])])
    ELSE v

RECURSIVE remove_property_format_value_from_json(_)
remove_property_format_value_from_json(v) ==
    IF IsObject(v) THEN
        LET m == RemoveEach(v.o, StrippedKeys, 1)
        IN  Obj([x \in DOMAIN m |-> remove_property_format_value_from_json(m[x])])
    ELSE IF IsArray(v) THEN
        Arr([i \in 1..Len(v.a) |-> remove_property_format_value_from_json(v.a[i])])
    ELSE v

-----------------------------------------------------------------------------
(* replace_one_of_by_any_of                                                *)

\* the key list in the other order
UnionKeysSwapped == << "allOf", "oneOf" >>

\* the key list with "allOf" forgotten
UnionKeysOneOfOnly == << "oneOf" >>

UnionKeys == << "oneOf", "allOf" >>

RECURSIVE RenameEach(_, _, _)
\* for key in ["oneOf", "allOf"] { if contains_key { remove; insert anyOf } }
RenameEach(m, keys, i) ==
    IF i > Len(keys) THEN m
    ELSE IF ContainsKey(m, keys[i])
         THEN RenameEach(MapInsert(MapRemove(m, keys[i]), "anyOf", m[keys[i]]),
                         keys, i + 1)
         ELSE RenameEach(m, keys, i + 1)

RECURSIVE replace_one_of_by_any_of(_)
replace_one_of_by_any_of(v) ==
    IF IsObject(v) THEN
        LET m == RenameEach(v.o, UnionKeys, 1)
        IN  Obj([x \in DOMAIN m |-> replace_one_of_by_any_of(m[x])])
    ELSE IF IsArray(v) THEN
        Arr([i \in 1..Len(v.a) |-> replace_one_of_by_any_of(v.a[i])])
    ELSE v

-----------------------------------------------------------------------------
(* set_additional_properties_to_false                                      *)

\* object.get("type") == Some(&Value::String("object"))
IsObjectTyped(m) == ContainsKey(m, "type") /\ m["type"] = Str("object")

\* inserts only where the key is absent
CloseKeepPresent(m) ==
    IF IsObjectTyped(m) /\ ~ContainsKey(m, "additionalProperties")
    THEN MapInsert(m, "additionalProperties", Bool("false"))
    ELSE m

\* if type is "object" { object.insert("additionalProperties", false) }
Close(m) ==
    IF IsObjectTyped(m)
    THEN MapInsert(m, "additionalProperties", Bool("false"))
    ELSE m

RECURSIVE set_additional_properties_to_false(_)
set_additional_properties_to_false(v) ==
    IF IsObject(v) THEN
        LET m == Close(v.o)
        IN  Obj([x \in DOMAIN m |-> set_additional_properties_to_false(m[x])])
    ELSE IF IsArray(v) THEN
        Arr([i \in 1..Len(v.a) |-> set_additional_properties_to_false(v.a[i])])
    ELSE v

-----------------------------------------------------------------------------
(* enforce_all_required_properties                                         *)

\* the key list short of its last key
PropertyNamesShort(p) ==
    LET ks == MapKeys(p) IN [i \in 1..(Len(ks) - 1) |-> Str(ks[i])]

\* properties.keys().map(|key| Value::String(key)).collect::<Vec<_>>()
PropertyNames(p) ==
    LET ks == MapKeys(p) IN [i \in 1..Len(ks) |-> Str(ks[i])]

RECURSIVE PushAll(_, _, _)
\* the loop without its contains test
PushAll(required, properties, i) ==
    IF i > Len(properties) THEN required
    ELSE PushAll(Append(required, properties[i]), properties, i + 1)

RECURSIVE PushMissing(_, _, _)
\* for property in properties { if !required.contains(&property) { push } }
PushMissing(required, properties, i) ==
    IF i > Len(properties) THEN required
    ELSE IF ~SeqContains(required, properties[i])
         THEN PushMissing(Append(required, properties[i]), properties, i + 1)
         ELSE PushMissing(required, properties, i + 1)

\* if let (Some(required), Some(properties)) = (get_mut("required"), properties)
\*   where properties is Some only for an object, and required must be an array
Rewrites(m) ==
    /\ ContainsKey(m, "properties")
    /\ IsObject(m["properties"])
    /\ ContainsKey(m, "required")
    /\ IsArray(m["required"])

\* required replaced by the property names instead of extended
RequireReplace(m) ==
    IF Rewrites(m)
    THEN MapInsert(m, "required", Arr(PropertyNames(m["properties"].o)))
    ELSE m

\* a missing required array synthesized
RequireSynthesize(m) ==
    IF Rewrites(m)
    THEN MapInsert(m, "required",
                   Arr(PushMissing(m["required"].a,
                                   PropertyNames(m["properties"].o), 1)))
    ELSE IF ContainsKey(m, "properties") /\ IsObject(m["properties"])
              /\ ~ContainsKey(m, "required")
         THEN MapInsert(m, "required", Arr(PropertyNames(m["properties"].o)))
         ELSE m

Require(m) ==
    IF Rewrites(m)
    THEN MapInsert(m, "required",
                   Arr(PushMissing(m["required"].a,
                                   PropertyNames(m["properties"].o), 1)))
    ELSE m

RECURSIVE enforce_all_required_properties(_)
enforce_all_required_properties(v) ==
    IF IsObject(v) THEN
        LET m == Require(v.o)
        IN  Obj([x \in DOMAIN m |-> enforce_all_required_properties(m[x])])
    ELSE IF IsArray(v) THEN
        Arr([i \in 1..Len(v.a) |-> enforce_all_required_properties(v.a[i])])
    ELSE v

-----------------------------------------------------------------------------
(* enforce_openai_subset: the four passes in their fixed order             *)

\* the Total-Required Enforcer run first instead of last
enforce_required_first(v) ==
    set_additional_properties_to_false(
        replace_one_of_by_any_of(
            remove_property_format_value_from_json(
                enforce_all_required_properties(v))))

enforce_openai_subset(v) ==
    enforce_all_required_properties(
        set_additional_properties_to_false(
            replace_one_of_by_any_of(
                remove_property_format_value_from_json(v))))

-----------------------------------------------------------------------------
(* Bounded input documents                                                 *)

MaxDepth == 2

MaxLen == 2

Leaves ==
    { Str("object"), Str("name"), Bool("true"), Arr(<<>>), Obj(EmptyMap),
      Obj("name" :> Obj(EmptyMap)), Obj("format" :> Str("name")) }

Pad == Str("name")

GenKeys == { "type", "properties", "required", "oneOf", "allOf", "anyOf",
             "additionalProperties", "format", "uniqueItems", "name" }

\* One nesting step around a document d: an array of 1..MaxLen elements
\* holding d at position p and Pad elsewhere, or an object holding d under
\* key, alone or next to the keys sib that the passes read together with it.
ArrayContexts ==
    { [c |-> "array", n |-> np[1], p |-> np[2]] :
        np \in { x \in (1..MaxLen) \X (1..MaxLen) : x[2] <= x[1] } }

Siblings(key) ==
    CASE key = "properties" ->
            { "required" :> Arr(<<>>),
              "required" :> Arr(<<Str("name"), Str("name")>>),
              "required" :> Str("name"),
              "required" :> Arr(<<Str("name")>>) @@ "type" :> Str("object") }
      [] key = "required" ->
            { "properties" :> Obj("name" :> Obj(EmptyMap)),
              "properties" :> Obj("name" :> Obj(EmptyMap) @@ "type" :> Str("object")),
              "properties" :> Arr(<<>>) }
      [] key = "additionalProperties" ->
            { "type" :> Str("object"), "type" :> Str("string") }
      [] key = "oneOf" ->
            { "allOf" :> Arr(<<>>),
              "allOf" :> Arr(<<>>) @@ "anyOf" :> Str("name") }
      [] key = "allOf" ->
            { "oneOf" :> Arr(<<>>), "anyOf" :> Arr(<<>>) }
      [] key = "anyOf" ->
            { "oneOf" :> Arr(<<>>), "allOf" :> Arr(<<>>) }
      [] OTHER -> {}

ObjectContexts ==
    UNION { { [c |-> "object", key |-> key, sib |-> sib] :
                sib \in {EmptyMap} \cup Siblings(key) } : key \in GenKeys }

Contexts == ArrayContexts \cup ObjectContexts

Around(ctx, d) ==
    IF ctx.c = "array"
    THEN Arr([i \in 1..ctx.n |-> IF i = ctx.p THEN d ELSE Pad])
    ELSE Obj(ctx.key :> d @@ ctx.sib)

RECURSIVE Nest(_, _, _)
\* ctxs[1] is the innermost step
Nest(ctxs, i, d) ==
    IF i > Len(ctxs) THEN d ELSE Nest(ctxs, i + 1, Around(ctxs[i], d))

Nestings == UNION { [1..n -> Contexts] : n \in 0..MaxDepth }

-----
(* Schema::new runs enforce_openai_subset once on the generated document;  *)
(* pc is the position inside enforce_openai_subset.                        *)

Init ==
    /\ \E leaf \in Leaves, ctxs \in Nestings : orig = Nest(ctxs, 1, leaf)
    /\ value = orig
    /\ prev = orig
    /\ pc = "strip"
    /\ applied = {}

RemoveFormat ==
    /\ pc = "strip"
    /\ prev' = value
    /\ value' = remove_property_format_value_from_json(value)
    /\ pc' = "unions"
    /\ UNCHANGED <<orig, applied>>

ReplaceOneOf ==
    /\ pc = "unions"
    /\ prev' = value
    /\ value' = replace_one_of_by_any_of(value)
    /\ pc' = "close"
    /\ UNCHANGED <<orig, applied>>

SetAdditionalProperties ==
    /\ pc = "close"
    /\ prev' = value
    /\ value' = set_additional_properties_to_false(value)
    /\ pc' = "required"
    /\ UNCHANGED <<orig, applied>>

EnforceRequired ==
    /\ pc = "required"
    /\ prev' = value
    /\ value' = enforce_all_required_properties(value)
    /\ pc' = "done"
    /\ UNCHANGED <<orig, applied>>

\* a second call of enforce_openai_subset on the finished document
Reapply ==
    /\ pc = "done"
    /\ prev' = value
    /\ value' = enforce_openai_subset(value)
    /\ pc' = "again"
    /\ UNCHANGED <<orig, applied>>

Next ==
    \/ RemoveFormat
    \/ ReplaceOneOf
    \/ SetAdditionalProperties
    \/ EnforceRequired
    \/ Reapply

Spec == Init /\ [][Next]_vars

-----------------------------------------------------------------------------
(* The same four passes, each run once, in a free order                    *)

InitFree ==
    /\ \E leaf \in Leaves, ctxs \in Nestings : orig = Nest(ctxs, 1, leaf)
    /\ value = orig
    /\ prev = orig
    /\ pc = "free"
    /\ applied = {}

FreeRemoveFormat ==
    /\ "strip" \notin applied
    /\ value' = remove_property_format_value_from_json(value)
    /\ applied' = applied \cup {"strip"}
    /\ pc' = "other"
    /\ UNCHANGED <<orig, prev>>

FreeReplaceOneOf ==
    /\ "unions" \notin applied
    /\ value' = replace_one_of_by_any_of(value)
    /\ applied' = applied \cup {"unions"}
    /\ pc' = "other"
    /\ UNCHANGED <<orig, prev>>

FreeSetAdditionalProperties ==
    /\ "close" \notin applied
    /\ value' = set_additional_properties_to_false(value)
    /\ applied' = applied \cup {"close"}
    /\ pc' = "other"
    /\ UNCHANGED <<orig, prev>>

FreeEnforceRequired ==
    /\ "required" \notin applied
    /\ value' = enforce_all_required_properties(value)
    /\ applied' = applied \cup {"required"}
    /\ pc' = "required"
    /\ UNCHANGED <<orig, prev>>

NextFree ==
    \/ FreeRemoveFormat
    \/ FreeReplaceOneOf
    \/ FreeSetAdditionalProperties
    \/ FreeEnforceRequired

SpecFree == InitFree /\ [][NextFree]_vars

-----------------------------------------------------------------------------
(* Vocabulary of the properties                                            *)

\* the keywords the target dialect rejects
ForbiddenKeywords ==
    { "minLength", "maxLength", "pattern", "format", "minimum", "maximum",
      "multipleOf", "patternProperties", "unevaluatedProperties",
      "propertyNames", "minProperties", "maxProperties", "unevaluatedItems",
      "contains", "minContains", "maxContains", "minItems", "maxItems",
      "uniqueItems" }

Has(n, key) == IsObject(n) /\ key \in DOMAIN n.o

RECURSIVE Nodes(_)
\* every node of a document, the root included
Nodes(v) ==
    {v} \cup
    IF IsObject(v) THEN UNION { Nodes(v.o[x]) : x \in DOMAIN v.o }
    ELSE IF IsArray(v) THEN UNION { Nodes(v.a[i]) : i \in 1..Len(v.a) }
    ELSE {}

Min(a, b) == IF a < b THEN a ELSE b

Elements(s) == { s[i] : i \in 1..Len(s) }

TypedObject(n) == Has(n, "type") /\ n.o["type"] = Str("object")

\* the keys of an input node whose value is still in the finished document:
\* not a forbidden keyword, not displaced by the union rename, not the
\* additionalProperties of a closed object
Remaining(n) ==
    DOMAIN n.o \
        ( ForbiddenKeywords
          \cup (IF Has(n, "allOf") THEN {"oneOf", "anyOf"}
                ELSE IF Has(n, "oneOf") THEN {"anyOf"} ELSE {})
          \cup (IF TypedObject(n) THEN {"additionalProperties"} ELSE {}) )

\* the key under which the value of an input key is found afterwards
After(key) == IF key \in {"oneOf", "allOf"} THEN "anyOf" ELSE key

RECURSIVE Pairs(_, _)
\* <<n, m>>: input node n and the node m of the finished document at its place
Pairs(in, out) ==
    {<<in, out>>} \cup
    IF IsObject(in) /\ IsObject(out) THEN
        UNION { IF After(x) \in DOMAIN out.o
                THEN Pairs(in.o[x], out.o[After(x)]) ELSE {} : x \in Remaining(in) }
    ELSE IF IsArray(in) /\ IsArray(out) THEN
        UNION { Pairs(in.a[i], out.a[i]) : i \in 1..Min(Len(in.a), Len(out.a)) }
    ELSE {}

RECURSIVE SamePlace(_, _)
\* <<n, m>>: nodes at the same path (same keys, same indices) of two documents
SamePlace(in, out) ==
    {<<in, out>>} \cup
    IF IsObject(in) /\ IsObject(out) THEN
        UNION { SamePlace(in.o[x], out.o[x]) : x \in DOMAIN in.o \cap DOMAIN out.o }
    ELSE IF IsArray(in) /\ IsArray(out) THEN
        UNION { SamePlace(in.a[i], out.a[i]) : i \in 1..Min(Len(in.a), Len(out.a)) }
    ELSE {}

-----------------------------------------------------------------------------
\* C1: after the four passes no object node at any depth, inside arrays
\* included, has one of the 19 forbidden keywords as a key.
C1_NoForbiddenKeyword ==
    pc \in {"done", "again"} =>
        \A n \in Nodes(value) : IsObject(n) => DOMAIN n.o \cap ForbiddenKeywords = {}

\* a finished run on a document with a forbidden keyword on an object that is
\* an element of a nested array
C1_Witness ==
    /\ pc = "done"
    /\ \E n \in Nodes(orig) :
          /\ n # orig
          /\ IsArray(n)
          /\ \E i \in 1..Len(n.a) : Has(n.a[i], "format")

-----------------------------------------------------------------------------
\* C2 (as amended): after the four passes no object node has a key oneOf or
\* allOf, and for every input node with exactly one of the two that is still in
\* the document, anyOf of the same node holds what the four passes make of the
\* value that was under that key.
C2_UnionRewrite ==
    pc = "done" =>
        /\ \A m \in Nodes(value) : ~Has(m, "oneOf") /\ ~Has(m, "allOf")
        /\ \A nm \in Pairs(orig, value) :
              \A key \in {"oneOf", "allOf"} :
                 (Has(nm[1], key) /\ ~Has(nm[1], CHOOSE o \in {"oneOf", "allOf"} : o # key))
                 => /\ Has(nm[2], "anyOf")
                    /\ nm[2].o["anyOf"] = enforce_openai_subset(nm[1].o[key])

\* C2 as stated: the value under anyOf is identical to the value that was
\* under oneOf / allOf.
C2_AsStated ==
    pc = "done" =>
        /\ \A m \in Nodes(value) : ~Has(m, "oneOf") /\ ~Has(m, "allOf")
        /\ \A nm \in Pairs(orig, value) :
              \A key \in {"oneOf", "allOf"} :
                 (Has(nm[1], key) /\ ~Has(nm[1], CHOOSE o \in {"oneOf", "allOf"} : o # key))
                 => /\ Has(nm[2], "anyOf")
                    /\ nm[2].o["anyOf"] = nm[1].o[key]

\* a finished run on a document with a nested oneOf whose value the other
\* passes rewrite, the value now under anyOf
C2_Witness ==
    /\ pc = "done"
    /\ \E nm \in Pairs(orig, value) :
          /\ nm[1] # orig
          /\ Has(nm[1], "oneOf") /\ ~Has(nm[1], "allOf")
          /\ Has(nm[2], "anyOf")
          /\ nm[2].o["anyOf"] # nm[1].o["oneOf"]

-----------------------------------------------------------------------------
\* C3: once the Closed-Object Enforcer has run, and still after the
\* Total-Required Enforcer, every object node whose type is the string
\* "object" has additionalProperties = false.
C3_ClosedObjects ==
    pc \in {"required", "done", "again"} =>
        \A n \in Nodes(value) :
           TypedObject(n) =>
              Has(n, "additionalProperties") /\ n.o["additionalProperties"] = Bool("false")

\* a finished run on a document where a type-"object" node inside an array
\* had a sub-schema under additionalProperties
C3_Witness ==
    /\ pc = "done"
    /\ \E n \in Nodes(orig) :
          /\ IsArray(n)
          /\ \E i \in 1..Len(n.a) :
               /\ TypedObject(n.a[i])
               /\ Has(n.a[i], "additionalProperties")
               /\ IsObject(n.a[i].o["additionalProperties"])

-----------------------------------------------------------------------------
\* the Total-Required Enforcer rewrites a node only when its properties is an
\* object and its required is an array
WellFormed(n) ==
    /\ Has(n, "properties") /\ IsObject(n.o["properties"])
    /\ Has(n, "required") /\ IsArray(n.o["required"])

NoDuplicates(s) == \A i, j \in 1..Len(s) : i # j => s[i] # s[j]

\* C4 (as amended): after the four passes every object node whose properties
\* is an object and whose required is an array has every key of its properties
\* in required; the entries that were in required before keep their positions
\* (each as the passes rewrite it, a string as it was); the entries after them
\* are property names, distinct from each other and from the earlier entries.
C4_TotalRequired ==
    pc = "done" =>
        /\ \A m \in Nodes(value) :
              WellFormed(m) =>
                 \A key \in DOMAIN m.o["properties"].o :
                    Str(key) \in Elements(m.o["required"].a)
        /\ \A nm \in Pairs(orig, value) :
              (Has(nm[1], "required") /\ IsArray(nm[1].o["required"])) =>
                 /\ Has(nm[2], "required") /\ IsArray(nm[2].o["required"])
                 /\ LET before == nm[1].o["required"].a
                        after == nm[2].o["required"].a
                    IN  /\ Len(after) >= Len(before)
                        /\ \A i \in 1..Len(before) :
                              /\ after[i] = enforce_openai_subset(before[i])
                              /\ before[i].k = "string" => after[i] = before[i]
                        /\ \A j \in (Len(before) + 1)..Len(after) :
                              /\ WellFormed(nm[2])
                              /\ after[j].k = "string"
                              /\ after[j].s \in DOMAIN nm[2].o["properties"].o
                              /\ \A i \in 1..(j - 1) : after[i] # after[j]

\* C4 as stated, read for the nodes the pass rewrites (properties an object,
\* required an array): required holds every key of properties, the earlier
\* string entries are in place, and required has no duplicate entries.
C4_AsStated ==
    pc = "done" =>
        /\ \A m \in Nodes(value) :
              WellFormed(m) =>
                 /\ \A key \in DOMAIN m.o["properties"].o :
                       Str(key) \in Elements(m.o["required"].a)
                 /\ NoDuplicates(m.o["required"].a)
        /\ \A nm \in Pairs(orig, value) :
              (WellFormed(nm[1]) /\ WellFormed(nm[2])) =>
                 /\ Len(nm[2].o["required"].a) >= Len(nm[1].o["required"].a)
                 /\ \A i \in 1..Len(nm[1].o["required"].a) :
                       nm[1].o["required"].a[i].k = "string" =>
                          nm[2].o["required"].a[i] = nm[1].o["required"].a[i]

\* a finished run on a node whose required already named one of its
\* properties and got the missing ones appended
C4_Witness ==
    /\ pc = "done"
    /\ \E nm \in Pairs(orig, value) :
          /\ WellFormed(nm[1]) /\ WellFormed(nm[2])
          /\ Len(nm[1].o["required"].a) >= 1
          /\ Len(nm[2].o["required"].a) > Len(nm[1].o["required"].a)
          /\ \E i \in 1..Len(nm[1].o["required"].a) :
                /\ nm[1].o["required"].a[i].k = "string"
                /\ nm[1].o["required"].a[i].s \in DOMAIN nm[1].o["properties"].o

-----------------------------------------------------------------------------
KeywordNames == { "type", "format", "oneOf", "required" }

\* C5: a second run of enforce_openai_subset on the result of the first run
\* leaves the document as the first run made it.
C5_Idempotent ==
    pc = "again" => value = prev

\* a second run has finished on a document whose properties map has a key
\* named like a schema keyword, and which the first run changed
C5_Witness ==
    /\ pc = "again"
    /\ prev # orig
    /\ \E n \in Nodes(orig) :
          /\ Has(n, "properties") /\ IsObject(n.o["properties"])
          /\ Has(n, "required") /\ IsArray(n.o["required"])
          /\ DOMAIN n.o["properties"].o \cap KeywordNames # {}

-----------------------------------------------------------------------------
AllRan == applied = {"strip", "unions", "close", "required"}

\* C6 (as amended): the Constraint Stripper, the Union Normalizer and the
\* Closed-Object Enforcer may run in any order, provided the Total-Required
\* Enforcer runs after them: the final document is then the one of the fixed
\* order of enforce_openai_subset.
C6_RequiredLast ==
    (AllRan /\ pc = "required") => value = enforce_openai_subset(orig)

\* C6 as stated: every permutation of the four passes yields the document of
\* the fixed order.
C6_AsStated ==
    AllRan => value = enforce_openai_subset(orig)

\* the four passes have run, the Total-Required Enforcer last, on a document
\* that each of them changes when run first
C6_Witness ==
    /\ AllRan
    /\ pc = "required"
    /\ remove_property_format_value_from_json(orig) # orig
    /\ replace_one_of_by_any_of(orig) # orig
    /\ set_additional_properties_to_false(orig) # orig
    /\ enforce_all_required_properties(orig) # orig

-----------------------------------------------------------------------------
\* the value of a key that remains has its place in the finished document
KeysKept(n, m) ==
    \A x \in Remaining(n) : After(x) \in DOMAIN m.o

\* an array whose length the Total-Required Enforcer may change: the required
\* array of a node whose properties is an object
MayGrow(n, x) ==
    x = "required" /\ Has(n, "properties") /\ IsObject(n.o["properties"])

\* C7 (as amended): the four passes never change the JSON type of a node that
\* remains in the document (what was under a forbidden keyword, under a oneOf
\* or anyOf displaced by the union rename, or under additionalProperties of a
\* type-"object" node does not remain); a scalar, the one under a type key
\* included, keeps its value; the value under properties keeps its JSON type
\* and is what the four passes make of it; every array keeps its element order
\* and its length, except a required array next to an object-valued
\* properties, which keeps its entries as a prefix and may grow.
C7_Structure ==
    pc = "done" =>
        \A nm \in Pairs(orig, value) :
           /\ nm[2].k = nm[1].k
           /\ IsScalar(nm[1]) => nm[2] = nm[1]
           /\ IsArray(nm[1]) =>
                 \A i \in 1..Len(nm[1].a) :
                    /\ i <= Len(nm[2].a)
                    /\ IsArray(nm[1].a[i]) =>
                          /\ IsArray(nm[2].a[i])
                          /\ Len(nm[2].a[i].a) = Len(nm[1].a[i].a)
           /\ IsObject(nm[1]) =>
                 /\ KeysKept(nm[1], nm[2])
                 /\ Has(nm[1], "properties") =>
                       nm[2].o["properties"] = enforce_openai_subset(nm[1].o["properties"])
                 /\ \A x \in Remaining(nm[1]) :
                       IsArray(nm[1].o[x]) =>
                          /\ IsArray(nm[2].o[After(x)])
                          /\ IF MayGrow(nm[1], x)
                             THEN Len(nm[2].o[After(x)].a) >= Len(nm[1].o[x].a)
                             ELSE Len(nm[2].o[After(x)].a) = Len(nm[1].o[x].a)
           /\ (nm[1] = orig /\ IsArray(orig)) => Len(value.a) = Len(orig.a)

\* C7 as stated: no node that remains changes its JSON type, the value under a
\* type key and the content under a properties key do not change, and every
\* array has the length and the element order it had.
C7_AsStated ==
    pc = "done" =>
        \A nm \in Pairs(orig, value) :
           /\ nm[2].k = nm[1].k
           /\ IsScalar(nm[1]) => nm[2] = nm[1]
           /\ IsArray(nm[1]) => Len(nm[2].a) = Len(nm[1].a)
           /\ IsObject(nm[1]) =>
                 /\ KeysKept(nm[1], nm[2])
                 /\ Has(nm[1], "type") => nm[2].o["type"] = nm[1].o["type"]
                 /\ Has(nm[1], "properties") =>
                       nm[2].o["properties"] = nm[1].o["properties"]

\* a finished run on a document with a two-element array under a key that
\* remains and a required array that grew
C7_Witness ==
    /\ pc = "done"
    /\ \E nm \in Pairs(orig, value) :
          /\ WellFormed(nm[1])
          /\ Len(nm[2].o["required"].a) > Len(nm[1].o["required"].a)
          /\ \E x \in Remaining(nm[1]) \ {"required"} :
                \E n \in Nodes(nm[1].o[x]) : IsArray(n) /\ Len(n.a) = 2

-----------------------------------------------------------------------------
\* C8: the Total-Required Enforcer leaves an object node without a required
\* key, with a required that is no array, or with a properties that is no
\* object, as it is at that node (no required key appears, the required value
\* keeps its kind, its scalar value and its length), and still rewrites the
\* well-formed nodes below it and in the rest of the document.
C8_SkipsMalformed ==
    pc = "done" =>
        \A nm \in SamePlace(prev, value) :
           IsObject(nm[1]) =>
              /\ IsObject(nm[2])
              /\ DOMAIN nm[2].o = DOMAIN nm[1].o
              /\ ~WellFormed(nm[1]) =>
                    \A x \in DOMAIN nm[1].o :
                       /\ nm[2].o[x].k = nm[1].o[x].k
                       /\ IsScalar(nm[1].o[x]) => nm[2].o[x] = nm[1].o[x]
                       /\ IsArray(nm[1].o[x]) => Len(nm[2].o[x].a) = Len(nm[1].o[x].a)
              /\ WellFormed(nm[1]) =>
                    /\ WellFormed(nm[2])
                    /\ \A key \in DOMAIN nm[2].o["properties"].o :
                          Str(key) \in Elements(nm[2].o["required"].a)

\* the Total-Required Enforcer has run on a document whose root has
\* properties but no required key, and has appended to the required array of
\* a well-formed node below that root
C8_Witness ==
    /\ pc = "done"
    /\ Has(prev, "properties") /\ ~Has(prev, "required")
    /\ \E nm \in SamePlace(prev, value) :
          /\ nm[1] # prev
          /\ WellFormed(nm[1])
          /\ nm[2].o["required"] # nm[1].o["required"]

-----------------------------------------------------------------------------
UnionKeywords == { "oneOf", "allOf", "anyOf" }

\* the key whose value the Union Normalizer leaves under anyOf
Winner(n) ==
    IF Has(n, "allOf") THEN "allOf" ELSE IF Has(n, "oneOf") THEN "oneOf" ELSE "anyOf"

RECURSIVE Normalized(_, _)
\* out is in with, at every object node, anyOf holding the value of allOf if
\* there is one, else of oneOf if there is one, else of anyOf; the values
\* themselves normalized in the same way
Normalized(in, out) ==
    IF IsObject(in) THEN
        /\ IsObject(out)
        /\ DOMAIN out.o =
              (DOMAIN in.o \ UnionKeywords)
              \cup (IF DOMAIN in.o \cap UnionKeywords # {} THEN {"anyOf"} ELSE {})
        /\ \A x \in DOMAIN in.o \ UnionKeywords : Normalized(in.o[x], out.o[x])
        /\ DOMAIN in.o \cap UnionKeywords # {} =>
              Normalized(in.o[Winner(in)], out.o["anyOf"])
    ELSE IF IsArray(in) THEN
        /\ IsArray(out)
        /\ Len(out.a) = Len(in.a)
        /\ \A i \in 1..Len(in.a) : Normalized(in.a[i], out.a[i])
    ELSE out = in

\* C9: the Union Normalizer handles oneOf, then allOf: at a node with both,
\* anyOf holds the value that was under allOf and the one under oneOf is gone;
\* a native anyOf keeps its value if the node has neither oneOf nor allOf and
\* is otherwise overwritten by the renamed value.
C9_UnionOrder ==
    pc = "close" => Normalized(prev, value)

\* the Union Normalizer has run on a document with a node that had oneOf,
\* allOf and anyOf, all three with different values
C9_Witness ==
    /\ pc = "close"
    /\ \E n \in Nodes(prev) :
          /\ Has(n, "oneOf") /\ Has(n, "allOf") /\ Has(n, "anyOf")
          /\ n.o["oneOf"] # n.o["allOf"]
          /\ n.o["anyOf"] # n.o["allOf"]
          /\ n.o["anyOf"] # n.o["oneOf"]

-----------------------------------------------------------------------------
RECURSIVE Deleted(_, _)
\* out is in with the forbidden keywords deleted from every object node
Deleted(in, out) ==
    IF IsObject(in) THEN
        /\ IsObject(out)
        /\ DOMAIN out.o = DOMAIN in.o \ ForbiddenKeywords
        /\ \A x \in DOMAIN out.o : Deleted(in.o[x], out.o[x])
    ELSE IF IsArray(in) THEN
        /\ IsArray(out)
        /\ Len(out.a) = Len(in.a)
        /\ \A i \in 1..Len(in.a) : Deleted(in.a[i], out.a[i])
    ELSE out = in

\* C10: the Constraint Stripper alone yields the document with the 19
\* forbidden keywords deleted from every object node and nothing else changed:
\* other keys keep their values up to the same deletion, arrays keep length and
\* order, scalars keep their value, a document without such keys is unchanged.
C10_StripOnly ==
    pc = "unions" =>
        /\ Deleted(orig, value)
        /\ (\A n \in Nodes(orig) : IsObject(n) => DOMAIN n.o \cap ForbiddenKeywords = {})
              => value = orig

\* the Constraint Stripper has run on a document with a two-element array that
\* holds an object with a forbidden keyword in second place
C10_Witness ==
    /\ pc = "unions"
    /\ \E n \in Nodes(orig) :
          /\ IsArray(n) /\ Len(n.a) = 2
          /\ Has(n.a[2], "format")
    /\ value # orig

====
